---- MODULE Spec2Model ----
(***************************************************************************)
(* MaskGuard: the batch video job engine (app/services/video_worker.py,    *)
(* app/routes/api.py), the centroid tracker (app/models/tracker.py), the   *)
(* event logger with its alert cooldown (app/services/logger.py) and the   *)
(* live websocket session that drives both (app/routes/ws.py).             *)
(*                                                                         *)
(* process_video is a plain function handed to BackgroundTasks, so it runs *)
(* in a worker thread while the status endpoint runs on the event loop:    *)
(* the field writes of complete_job / fail_job and the field reads of      *)
(* get_video_job_status interleave statement by statement. They are        *)
(* modelled one statement per step. Everything inside websocket_live       *)
(* between two awaits runs without preemption and is one step.             *)
(***************************************************************************)
EXTENDS Integers, Sequences, FiniteSets, TLC

VARIABLES
    jobs,            \* JobManager.jobs: job id -> VideoJob fields
    run,             \* job id -> the process_video activation for that job
    video_events,    \* job id -> events persisted with source "video" by its worker
    poll,            \* the activation of get_video_job_status
    next_object_id,  \* CentroidTracker.next_object_id
    objects,         \* CentroidTracker.objects: id -> centroid
    disappeared,     \* CentroidTracker.disappeared: id -> count
    active_connections, \* ConnectionManager.active_connections (client ids)
    last_result,     \* the list the last CentroidTracker.update returned
    issued,          \* history: the ids register has returned, in order
    missed,          \* history: id -> consecutive updates that did not return it
    retired,         \* history: ids that update has deregistered
    single_run,      \* history: updates so far (2 for more) if each held one box, else -1
    last_alert_time, \* EventLogger._last_alert_time: track id string -> time
    cooldown_seconds, \* EventLogger.cooldown_seconds
    clock,           \* what time.time() returns, in seconds
    call,            \* history: the last call made on the logger from outside
    history,         \* history: per identity, when should_alert last said True / False to a call
    handled,         \* history: what the last step of a websocket_live activation did
    scenario         \* a sequence of frames for update and the ids it returned for each

jobVars == <<jobs, run, video_events>>
trackerVars == <<next_object_id, objects, disappeared, active_connections,
                 last_result, issued, missed, retired, single_run>>
loggerVars == <<last_alert_time, cooldown_seconds, clock, call, history>>
liveVars == <<trackerVars, loggerVars, handled, scenario>>
vars == <<jobs, run, video_events, poll, next_object_id, objects, disappeared,
          active_connections, last_result, issued, missed, retired, single_run,
          last_alert_time, cooldown_seconds, clock, call, history, handled,
          scenario>>

----------------------------------------------------------------------------
(* Bounds of the model *)

MaxFrames == 4        \* frames a video yields at most
MaxFaces == 1         \* faces the detector returns per sampled frame
MaxDetections == 2    \* detections counted per worker run
MaxRuns == 2          \* process_video invocations per job id

JobIds == {"job_a"}                     \* stands for the uuid4 strings
InputPaths == {"missing.mp4", "clip.mp4"}
\* one more upload: a video of 100 frames at 30 frames per second
ExampleInput == "clip100.mp4"
ExampleFrames == 100
ExampleFps == 30
FpsValues == {0, 5, 9, 10}              \* CAP_PROP_FPS readings
FrameCountValues == {0, 2, 4}           \* CAP_PROP_FRAME_COUNT readings

max_disappeared == 2  \* CentroidTracker(max_disappeared=30), scaled down
MaxBoxes == 2         \* boxes the detector returns per live frame
MaxTrackIds == 4      \* ids the tracker issues at most
Clients == {"client_1", "client_2"}
Boxes == {<<0, 0, 2, 2>>, <<1, 1, 3, 3>>, <<2, 2, 4, 4>>}

StartTime == 20       \* time.time() when the process starts, scaled down
MaxClock == 31        \* the clock stops here
TickSteps == {5, 6}   \* seconds that pass between two calls on the logger
Identities == {"track_0", "track_1"}    \* track ids handed to the logger
Sources == {"live", "image", "video"}
\* arguments of set_cooldown: integers, and a string that is no number
SecondsInputs ==
    {[type |-> "int", v |-> n] : n \in {0, 5, 40}} \cup {[type |-> "str", v |-> 0]}
\* cooldown_seconds of a config message: absent, or a value for set_cooldown
ConfigInputs ==
    {[type |-> "None", v |-> 0], [type |-> "int", v |-> 1], [type |-> "int", v |-> 40]}
MaxLiveIds == 2       \* ids the tracker issues in a session with its logging followed
\* the boxes of such a session: a face, and a box of no width
LiveBoxes == {<<0, 0, 2, 2>>, <<1, 1, 1, 3>>}

ScenarioLen == 3      \* frames of a sequence fed to update
\* boxes with centroids (10, 10), (12, 11) and (50, 50)
ScenarioBoxes == {<<9, 9, 11, 11>>, <<11, 10, 13, 12>>, <<49, 49, 51, 51>>}

----------------------------------------------------------------------------
(* Constants of the program *)

None == "None"

PENDING == "pending"
PROCESSING == "processing"
COMPLETED == "completed"
FAILED == "failed"
JobStatus == {PENDING, PROCESSING, COMPLETED, FAILED}

VIDEO_PROCESS_FPS == 5
LABELS == {"MASK_ON", "NO_MASK", "MASK_INCORRECT"}
VIOLATION_LABELS == {"NO_MASK", "MASK_INCORRECT"}
ALERT_COOLDOWN_SECONDS == 10

Max(a, b) == IF a >= b THEN a ELSE b
Min(a, b) == IF a <= b THEN a ELSE b

\* a dict with key k set to v, and with key k deleted
Put(f, k, v) == [x \in DOMAIN f \cup {k} |-> IF x = k THEN v ELSE f[x]]
Del(f, k) == [x \in DOMAIN f \ {k} |-> f[x]]

----------------------------------------------------------------------------
(* EventLogger (app/services/logger.py) and the events table (app/db.py) *)

\* the logger's fields as one value
Logger == [last_alert_time |-> last_alert_time,
           cooldown_seconds |-> cooldown_seconds]

\* line 26: self._last_alert_time.get(track_id, 0)
LastTime(E, track_id) ==
    IF track_id \in DOMAIN E.last_alert_time THEN E.last_alert_time[track_id]
    ELSE 0

\* mutant of Due: a check exactly one window after the last alert is refused
DueStrict(current_time, last_time, window) == current_time - last_time > window

\* line 28: current_time - last_time >= self.cooldown_seconds
Due(current_time, last_time, window) == current_time - last_time >= window

\* mutant of should_alert: a refused check is recorded as well, so that the
\* window runs from the last check
should_alertRecordsCheck(E, track_id, current_time) ==
    [E |-> [E EXCEPT !.last_alert_time = Put(@, track_id, current_time)],
     ret |-> Due(current_time, LastTime(E, track_id), E.cooldown_seconds)]

\* EventLogger.should_alert, with time.time() as current_time
should_alert(E, track_id, current_time) ==
    IF Due(current_time, LastTime(E, track_id), E.cooldown_seconds)
    THEN [E |-> [E EXCEPT !.last_alert_time = Put(@, track_id, current_time)],
          ret |-> TRUE]
    ELSE [E |-> E, ret |-> FALSE]

\* db.log_event: the row it inserts (ts, confidence, snapshot and meta left out)
Row(source, label, track_id) ==
    [source |-> source, label |-> label, track_id |-> track_id]

\* one should_alert call as an observer sees it
Check(track_id, ret) == [track_id |-> track_id, ret |-> ret]

\* mutant of IsLive: every source goes through the cooldown
IsLiveAlways(source) == TRUE

\* line 65: source == "live"
IsLive(source) == source = "live"

\* EventLogger.log_detection: the logger after the call, the rows inserted,
\* the should_alert calls made, and the second component of the result
\* (the first, event_id, is -1 exactly when rows is empty)
log_detection(E, source, label, track_id, force_log, current_time) ==
    IF IsLive(source) /\ track_id # None /\ label \in VIOLATION_LABELS
    THEN IF force_log
         THEN [E |-> E, rows |-> <<Row(source, label, track_id)>>,
               checks |-> <<>>, should_alert |-> TRUE]
         ELSE LET a == should_alert(E, track_id, current_time) IN
              IF a.ret
              THEN [E |-> a.E, rows |-> <<Row(source, label, track_id)>>,
                    checks |-> <<Check(track_id, TRUE)>>, should_alert |-> TRUE]
              ELSE [E |-> a.E, rows |-> <<>>,
                    checks |-> <<Check(track_id, FALSE)>>, should_alert |-> FALSE]
    ELSE [E |-> E, rows |-> <<Row(source, label, track_id)>>,
          checks |-> <<>>, should_alert |-> label \in VIOLATION_LABELS]

\* line 99, int(seconds): the integer, or TypeError / ValueError
ToInt(seconds) ==
    IF seconds.type = "int" THEN [ok |-> TRUE, v |-> seconds.v]
    ELSE [ok |-> FALSE, v |-> 0]

\* mutant of set_cooldown: the recorded times are dropped with the old window
set_cooldownAndReset(E, seconds) ==
    IF ToInt(seconds).ok
    THEN [last_alert_time |-> <<>>, cooldown_seconds |-> Max(1, ToInt(seconds).v)]
    ELSE E

\* EventLogger.set_cooldown
set_cooldown(E, seconds) ==
    IF ToInt(seconds).ok
    THEN [E EXCEPT !.cooldown_seconds = Max(1, ToInt(seconds).v)]
    ELSE E

\* EventLogger.reset_cooldowns
reset_cooldowns(E) == [E EXCEPT !.last_alert_time = <<>>]

\* history kept beside the logger of the calls made on it from outside: per
\* identity the time of the last should_alert that returned True and of the
\* last that returned False since, both forgotten at a reset_cooldowns or
\* set_cooldown
Never == -1
NoHistory == [true_at |-> Never, denied_at |-> Never]
HistoryOf(h, track_id) == IF track_id \in DOMAIN h THEN h[track_id] ELSE NoHistory

RECURSIVE Note(_, _, _, _)
Note(h, checks, k, current_time) ==
    IF k > Len(checks) THEN h
    ELSE LET c == checks[k]
             was == HistoryOf(h, c.track_id)
             now == IF c.ret
                    THEN [true_at |-> current_time, denied_at |-> Never]
                    ELSE [was EXCEPT !.denied_at = current_time]
         IN  Note(Put(h, c.track_id, now), checks, k + 1, current_time)

\* the last call made on the logger from outside, as its caller saw it
\* (since_last: seconds since the recorded last-alert time of the identity;
\* since_true, since_denied: seconds since the times history holds for it;
\* requested: the window the call before asked for, if that was a
\* set_cooldown; before: _last_alert_time as the call found it)
NoCall ==
    [op |-> "none", track_id |-> None, ret |-> FALSE, window |-> 0,
     since_last |-> Never, since_true |-> Never, since_denied |-> Never,
     requested |-> Never, source |-> None, label |-> None, rows |-> 0,
     seconds |-> [type |-> "int", v |-> 0], before |-> <<>>]

Since(current_time, t) == IF t = Never THEN Never ELSE current_time - t

\* the clock moves on by d seconds
Tick(d) ==
    /\ clock + d <= MaxClock
    /\ clock' = clock + d
    /\ UNCHANGED <<last_alert_time, cooldown_seconds, call, history>>
    /\ UNCHANGED <<jobVars, poll, trackerVars, handled, scenario>>

ShouldAlert(track_id) ==
    /\ \E a \in {should_alert(Logger, track_id, clock)} :
          /\ last_alert_time' = a.E.last_alert_time
          /\ cooldown_seconds' = a.E.cooldown_seconds
          /\ history' = Note(history, <<Check(track_id, a.ret)>>, 1, clock)
          /\ call' = [NoCall EXCEPT
                !.op = "should_alert", !.track_id = track_id, !.ret = a.ret,
                !.window = cooldown_seconds,
                !.since_last = IF track_id \in DOMAIN last_alert_time
                               THEN clock - last_alert_time[track_id] ELSE Never,
                !.since_true = Since(clock, HistoryOf(history, track_id).true_at),
                !.since_denied = Since(clock, HistoryOf(history, track_id).denied_at),
                !.requested = IF call.op = "set_cooldown" /\ ToInt(call.seconds).ok
                              THEN call.window ELSE Never]
    /\ UNCHANGED clock
    /\ UNCHANGED <<jobVars, poll, trackerVars, handled, scenario>>

LogDetection(source, label, track_id, force_log) ==
    /\ \E g \in {log_detection(Logger, source, label, track_id, force_log, clock)} :
          /\ last_alert_time' = g.E.last_alert_time
          /\ cooldown_seconds' = g.E.cooldown_seconds
          /\ history' = Note(history, g.checks, 1, clock)
          /\ call' = [NoCall EXCEPT
                !.op = "log_detection", !.track_id = track_id,
                !.ret = g.should_alert, !.window = cooldown_seconds,
                !.source = source, !.label = label, !.rows = Len(g.rows),
                !.before = last_alert_time]
    /\ UNCHANGED clock
    /\ UNCHANGED <<jobVars, poll, trackerVars, handled, scenario>>

SetCooldown(seconds) ==
    /\ \E E \in {set_cooldown(Logger, seconds)} :
          /\ last_alert_time' = E.last_alert_time
          /\ cooldown_seconds' = E.cooldown_seconds
          /\ call' = [NoCall EXCEPT
                !.op = "set_cooldown", !.seconds = seconds,
                !.window = E.cooldown_seconds, !.before = last_alert_time]
    /\ history' = <<>>
    /\ UNCHANGED clock
    /\ UNCHANGED <<jobVars, poll, trackerVars, handled, scenario>>

ResetCooldowns ==
    /\ \E E \in {reset_cooldowns(Logger)} :
          /\ last_alert_time' = E.last_alert_time
          /\ cooldown_seconds' = E.cooldown_seconds
    /\ history' = <<>>
    /\ call' = [NoCall EXCEPT !.op = "reset_cooldowns"]
    /\ UNCHANGED clock
    /\ UNCHANGED <<jobVars, poll, trackerVars, handled, scenario>>

----------------------------------------------------------------------------
(* VideoJob and JobManager *)

EmptyDict == [empty |-> TRUE]

\* VideoJob.__init__
VideoJob(input_path) ==
    [input_path |-> input_path,
     output_path |-> None,
     status |-> PENDING,
     progress |-> 0,
     error |-> None,
     summary |-> EmptyDict,
     detections_count |-> 0,
     completed_at |-> None]

\* JobManager.update_progress: the value stored
ClampProgress(progress) == Min(100, Max(0, progress))

\* cv2.VideoCapture(path).isOpened(): whether the file can be opened
isOpened(path) == path \in {"clip.mp4", ExampleInput}

\* what cap.get returns for CAP_PROP_FPS and CAP_PROP_FRAME_COUNT
FpsOf(path) == IF path = ExampleInput THEN {ExampleFps} ELSE FpsValues
FrameCountOf(path) == IF path = ExampleInput THEN {ExampleFrames} ELSE FrameCountValues

\* the numbers of frames the file may turn out to hold
FramesOf(path) == IF path = ExampleInput THEN {ExampleFrames} ELSE 0..MaxFrames

\* line 181, cap.read() with frame_idx frames read so far: ret is True when
\* the file holds more, False when it holds just these
ReadsFrame(path, frame_idx) == \E n \in FramesOf(path) : frame_idx < n
ReadsEnd(path, frame_idx) == frame_idx \in FramesOf(path)

\* mutant of OpenFails: the isOpened check is dropped
OpenFailsNever(path) == FALSE

\* process_video, line 144: the guard that raises "Failed to open video file"
OpenFails(path) == ~isOpened(path)

\* process_video, lines 153-157: the fallbacks for unusable properties
FixFps(fps) == IF fps <= 0 THEN VIDEO_PROCESS_FPS ELSE fps
FixTotalFrames(n) == IF n <= 0 THEN 1 ELSE n

\* mutant of FrameSkip: every frame is sampled
FrameSkipEveryFrame(fps) == 1

\* process_video, line 160: int() truncates the quotient of positive numbers
FrameSkip(fps) == Max(1, fps \div VIDEO_PROCESS_FPS)

\* mutant of Progress: the share of frames still to come
ProgressRemaining(frame_idx, total_frames) ==
    ((total_frames - frame_idx) * 100) \div total_frames

\* process_video, line 251: int((frame_idx / total_frames) * 100)
Progress(frame_idx, total_frames) == (frame_idx * 100) \div total_frames

\* process_video, line 174
ZeroCounts == [l \in LABELS |-> 0]

\* the locals of a process_video activation
NoRun ==
    [pc |-> "none", cap |-> FALSE, out |-> FALSE, fps |-> 0, total_frames |-> 0,
     frame_skip |-> 0, frame_idx |-> 0, processed_frames |-> 0,
     total_detections |-> 0, label_counts |-> ZeroCounts,
     written |-> <<>>, error_msg |-> None, runs |-> 0]

\* process_video, line 272: f"Video processing error: {str(e)}"
ErrorMsg(e) == "Video processing error: " \o e

----------------------------------------------------------------------------
(* create_video_job (api.py): create_job, then schedule process_video *)

\* mutant of create_job: every record is set up anew
create_jobResetsAll(j, input_path) ==
    /\ j \notin DOMAIN jobs
    /\ jobs' = [k \in DOMAIN jobs \cup {j} |->
                   VideoJob(IF k = j THEN input_path ELSE jobs[k].input_path)]
    /\ run' = [k \in DOMAIN run \cup {j} |->
                   IF k = j THEN [NoRun EXCEPT !.pc = "scheduled"] ELSE run[k]]
    /\ video_events' = [k \in DOMAIN video_events \cup {j} |->
                   IF k = j THEN 0 ELSE video_events[k]]

create_job(j, input_path) ==
    /\ j \notin DOMAIN jobs
    /\ jobs' = [k \in DOMAIN jobs \cup {j} |->
                   IF k = j THEN VideoJob(input_path) ELSE jobs[k]]
    /\ run' = [k \in DOMAIN run \cup {j} |->
                   IF k = j THEN [NoRun EXCEPT !.pc = "scheduled"] ELSE run[k]]
    /\ video_events' = [k \in DOMAIN video_events \cup {j} |->
                   IF k = j THEN 0 ELSE video_events[k]]

CreateVideoJob ==
    /\ \E j \in JobIds, p \in InputPaths : create_job(j, p)
    /\ UNCHANGED <<poll>>
    /\ UNCHANGED liveVars

CreateExampleJob ==
    /\ \E j \in JobIds : create_job(j, ExampleInput)
    /\ UNCHANGED <<poll>>
    /\ UNCHANGED liveVars

\* a second upload while the first job exists or not: its id, and its file,
\* one that cannot be opened
SecondJob == "job_b"
SecondInput == "missing.mp4"

CreateSecondJob ==
    /\ create_job(SecondJob, SecondInput)
    /\ UNCHANGED <<poll>>
    /\ UNCHANGED liveVars

----------------------------------------------------------------------------
(* process_video *)

\* lines 135-140: look the job up and mark it processing
StartLocals(r) == [NoRun EXCEPT !.pc = "open", !.runs = r.runs + 1]

pv_start(j) ==
    /\ j \in DOMAIN jobs
    /\ run[j].pc = "scheduled"
    /\ jobs' = [jobs EXCEPT ![j].status = PROCESSING]
    /\ run' = [run EXCEPT ![j] = StartLocals(run[j])]
    /\ UNCHANGED <<video_events, poll>>
    /\ UNCHANGED liveVars

\* lines 143-178: open the input, read its properties, open the writer
pv_open(j) ==
    /\ j \in DOMAIN jobs
    /\ run[j].pc = "open"
    /\ \/ /\ OpenFails(jobs[j].input_path)
          /\ run' = [run EXCEPT ![j].pc = "fail_status",
                                ![j].error_msg = ErrorMsg("Failed to open video file")]
       \/ /\ ~OpenFails(jobs[j].input_path)
          /\ \E fps \in FpsOf(jobs[j].input_path),
                n \in FrameCountOf(jobs[j].input_path) :
                run' = [run EXCEPT ![j].pc = "loop",
                                   ![j].cap = TRUE,
                                   ![j].out = TRUE,
                                   ![j].fps = FixFps(fps),
                                   ![j].total_frames = FixTotalFrames(n),
                                   ![j].frame_skip = FrameSkip(FixFps(fps))]
       \/ \* generate_unique_filename / get_output_path raise: no writer yet
          /\ ~OpenFails(jobs[j].input_path)
          /\ run' = [run EXCEPT ![j].pc = "fail_status",
                                ![j].cap = TRUE,
                                ![j].error_msg = ErrorMsg("output path")]
    /\ UNCHANGED <<jobs, video_events, poll>>
    /\ UNCHANGED liveVars

\* the labels of the faces of one sampled frame whose crop is not empty
FaceLabels == UNION {[1..n -> LABELS] : n \in 0..MaxFaces}

\* mutant of AddCounts: only the violations are counted per label
AddCountsViolations(counts, ls, n) ==
    [l \in LABELS |->
        IF l \in VIOLATION_LABELS
        THEN counts[l] + Cardinality({i \in 1..n : ls[i] = l})
        ELSE counts[l]]

\* lines 203-204 applied to the first n faces of ls
AddCounts(counts, ls, n) ==
    [l \in LABELS |-> counts[l] + Cardinality({i \in 1..n : ls[i] = l})]

\* where the body of a sampled frame can raise, with the number of faces
\* counted (lines 203-204) and persisted (lines 207-215) before it does
Raises(ls) ==
    {[e |-> "detect_faces", counted |-> 0, logged |-> 0]}
    \cup {[e |-> "predict", counted |-> k - 1, logged |-> k - 1] : k \in 1..Len(ls)}
    \cup {[e |-> "log_detection", counted |-> k, logged |-> k - 1] : k \in 1..Len(ls)}
    \cup {[e |-> "write", counted |-> Len(ls), logged |-> Len(ls)]}

\* lines 207-215 for the faces k..n of ls: log_detection with source "video"
\* and no track_id, starting from the logger and the rows of acc
RECURSIVE LogVideo(_, _, _, _, _)
LogVideo(acc, ls, k, n, current_time) ==
    IF k > n THEN acc
    ELSE LET g == log_detection(acc.E, "video", ls[k], None, FALSE, current_time)
         IN  LogVideo([E |-> g.E, rows |-> acc.rows \o g.rows], ls, k + 1, n,
                      current_time)

\* JobManager.update_progress (one store)
update_progress(J, j, progress) ==
    IF j \in DOMAIN J THEN [J EXCEPT ![j].progress = ClampProgress(progress)] ELSE J

\* lines 180-254: one iteration of the frame loop; on end of input lines
\* 257-258. written lists the indices of the frames handed to out.write
\* (line 247).
pv_frame(j) ==
    /\ j \in DOMAIN jobs
    /\ run[j].pc = "loop"
    /\ LET r == run[j] IN
       \/ \* cap.read() returns ret = False: leave the loop, release both handles
          /\ ReadsEnd(jobs[j].input_path, r.frame_idx)
          /\ run' = [run EXCEPT ![j].pc = "complete_status",
                                ![j].cap = FALSE,
                                ![j].out = FALSE]
          /\ UNCHANGED <<jobs, video_events, last_alert_time, cooldown_seconds>>
       \/ \* cap.read() raises
          /\ ReadsFrame(jobs[j].input_path, r.frame_idx)
          /\ run' = [run EXCEPT ![j].pc = "fail_status",
                                ![j].error_msg = ErrorMsg("read")]
          /\ UNCHANGED <<jobs, video_events, last_alert_time, cooldown_seconds>>
       \/ \* a frame that is not sampled
          /\ ReadsFrame(jobs[j].input_path, r.frame_idx)
          /\ r.frame_idx % r.frame_skip # 0
          /\ run' = [run EXCEPT ![j].frame_idx = r.frame_idx + 1]
          /\ UNCHANGED <<jobs, video_events, last_alert_time, cooldown_seconds>>
       \/ \* a sampled frame, processed to the end
          /\ ReadsFrame(jobs[j].input_path, r.frame_idx)
          /\ r.frame_idx % r.frame_skip = 0
          /\ \E ls \in FaceLabels :
                /\ r.total_detections + Len(ls) <= MaxDetections
                /\ run' = [run EXCEPT
                       ![j].label_counts = AddCounts(r.label_counts, ls, Len(ls)),
                       ![j].total_detections = r.total_detections + Len(ls),
                       ![j].written = Append(r.written, r.frame_idx),
                       ![j].processed_frames = r.processed_frames + 1,
                       ![j].frame_idx = r.frame_idx + 1]
                /\ \E v \in {LogVideo([E |-> Logger, rows |-> <<>>], ls, 1,
                                      Len(ls), clock)} :
                      /\ video_events' = [video_events EXCEPT ![j] = @ + Len(v.rows)]
                      /\ last_alert_time' = v.E.last_alert_time
                      /\ cooldown_seconds' = v.E.cooldown_seconds
                /\ jobs' = update_progress(jobs, j, Progress(r.frame_idx, r.total_frames))
       \/ \* a sampled frame whose processing raises
          /\ ReadsFrame(jobs[j].input_path, r.frame_idx)
          /\ r.frame_idx % r.frame_skip = 0
          /\ \E ls \in FaceLabels : \E x \in Raises(ls) :
                /\ r.total_detections + Len(ls) <= MaxDetections
                /\ run' = [run EXCEPT
                       ![j].label_counts = AddCounts(r.label_counts, ls, x.counted),
                       ![j].total_detections = r.total_detections + x.counted,
                       ![j].pc = "fail_status",
                       ![j].error_msg = ErrorMsg(x.e)]
                /\ \E v \in {LogVideo([E |-> Logger, rows |-> <<>>], ls, 1,
                                      x.logged, clock)} :
                      /\ video_events' = [video_events EXCEPT ![j] = @ + Len(v.rows)]
                      /\ last_alert_time' = v.E.last_alert_time
                      /\ cooldown_seconds' = v.E.cooldown_seconds
                /\ UNCHANGED jobs
    /\ UNCHANGED <<poll>>
    /\ UNCHANGED <<trackerVars, clock, call, history, handled, scenario>>

\* lines 261-266
Summary(r) ==
    [total_frames |-> r.total_frames,
     processed_frames |-> r.processed_frames,
     total_detections |-> r.total_detections,
     label_counts |-> r.label_counts]

\* process_video, line 167 (one name per run; the name itself is immaterial)
OutputPath(j) == "annotated_" \o j \o ".mp4"

\* mutant of CompleteStore: the status is not stored
CompleteStoreKeepsStatus(J, j, r, pc) ==
    CASE pc = "complete_status" -> J
      [] pc = "complete_progress" -> [J EXCEPT ![j].progress = 100]
      [] pc = "complete_output" -> [J EXCEPT ![j].output_path = OutputPath(j)]
      [] pc = "complete_summary" -> [J EXCEPT ![j].summary = Summary(r)]
      [] pc = "complete_count" -> [J EXCEPT ![j].detections_count = r.total_detections]
      [] pc = "complete_at" -> [J EXCEPT ![j].completed_at = "utcnow"]

\* JobManager.complete_job, lines 102-107: one store per step
CompleteStore(J, j, r, pc) ==
    CASE pc = "complete_status" -> [J EXCEPT ![j].status = COMPLETED]
      [] pc = "complete_progress" -> [J EXCEPT ![j].progress = 100]
      [] pc = "complete_output" -> [J EXCEPT ![j].output_path = OutputPath(j)]
      [] pc = "complete_summary" -> [J EXCEPT ![j].summary = Summary(r)]
      [] pc = "complete_count" -> [J EXCEPT ![j].detections_count = r.total_detections]
      [] pc = "complete_at" -> [J EXCEPT ![j].completed_at = "utcnow"]

CompleteNext(pc) ==
    CASE pc = "complete_status" -> "complete_progress"
      [] pc = "complete_progress" -> "complete_output"
      [] pc = "complete_output" -> "complete_summary"
      [] pc = "complete_summary" -> "complete_count"
      [] pc = "complete_count" -> "complete_at"
      [] pc = "complete_at" -> "returned"

\* the activation is over: its locals are gone (the handles stay as they are)
Returned(r) == [NoRun EXCEPT !.pc = "returned", !.runs = r.runs,
                             !.cap = r.cap, !.out = r.out]

CompletePcs == {"complete_status", "complete_progress", "complete_output",
                "complete_summary", "complete_count", "complete_at"}

complete_job(j) ==
    /\ j \in DOMAIN jobs
    /\ run[j].pc \in CompletePcs
    /\ jobs' = CompleteStore(jobs, j, run[j], run[j].pc)
    /\ run' = [run EXCEPT ![j] = IF CompleteNext(run[j].pc) = "returned"
                                 THEN Returned(run[j])
                                 ELSE [run[j] EXCEPT !.pc = CompleteNext(run[j].pc)]]
    /\ UNCHANGED <<video_events, poll>>
    /\ UNCHANGED liveVars

\* JobManager.fail_job, lines 119-121: one store per step
FailStore(J, j, r, pc) ==
    CASE pc = "fail_status" -> [J EXCEPT ![j].status = FAILED]
      [] pc = "fail_error" -> [J EXCEPT ![j].error = r.error_msg]
      [] pc = "fail_at" -> [J EXCEPT ![j].completed_at = "utcnow"]

FailNext(pc) ==
    CASE pc = "fail_status" -> "fail_error"
      [] pc = "fail_error" -> "fail_at"
      [] pc = "fail_at" -> "returned"

FailPcs == {"fail_status", "fail_error", "fail_at"}

fail_job(j) ==
    /\ j \in DOMAIN jobs
    /\ run[j].pc \in FailPcs
    /\ jobs' = FailStore(jobs, j, run[j], run[j].pc)
    /\ run' = [run EXCEPT ![j] = IF FailNext(run[j].pc) = "returned"
                                 THEN Returned(run[j])
                                 ELSE [run[j] EXCEPT !.pc = FailNext(run[j].pc)]]
    /\ UNCHANGED <<video_events, poll>>
    /\ UNCHANGED liveVars

\* a further process_video(job_id) call for a job whose task has returned
pv_again(j) ==
    /\ j \in DOMAIN jobs
    /\ run[j].pc = "returned"
    /\ run[j].runs < MaxRuns
    /\ jobs' = [jobs EXCEPT ![j].status = PROCESSING]
    /\ run' = [run EXCEPT ![j] = StartLocals(run[j])]
    /\ UNCHANGED <<video_events, poll>>
    /\ UNCHANGED liveVars

----------------------------------------------------------------------------
(* get_video_job_status (api.py): one attribute read per step *)

Unread == "unread"
UnreadDict == [unread |-> TRUE]

NoPoll ==
    [pc |-> "idle", job |-> None, http |-> 0, status |-> Unread, progress |-> -1,
     completed_at |-> Unread, output_path |-> Unread, summary |-> UnreadDict,
     detections_count |-> -1, error |-> Unread]

\* line 179 and the first entry of the response literal, line 186
poll_status(j) ==
    /\ poll.pc \in {"idle", "done"}
    /\ j \in DOMAIN jobs
    /\ poll' = [NoPoll EXCEPT !.pc = "progress", !.job = j, !.status = jobs[j].status]

\* line 187
poll_progress ==
    /\ poll.pc = "progress"
    /\ poll' = [poll EXCEPT !.pc = "if_completed", !.progress = jobs[poll.job].progress]

\* line 191
poll_if_completed ==
    /\ poll.pc = "if_completed"
    /\ poll' = [poll EXCEPT !.pc = IF jobs[poll.job].status = COMPLETED
                                   THEN "completed_at" ELSE "elif_failed"]

\* line 196
poll_elif_failed ==
    /\ poll.pc = "elif_failed"
    /\ poll' = [poll EXCEPT !.pc = IF jobs[poll.job].status = FAILED
                                   THEN "error" ELSE "done",
                            !.http = IF jobs[poll.job].status = FAILED THEN 0 ELSE 200]

\* line 192
poll_completed_at ==
    /\ poll.pc = "completed_at"
    /\ poll' = [poll EXCEPT !.pc = "output_path",
                            !.completed_at = jobs[poll.job].completed_at]

\* line 193: Path(None) raises TypeError inside get_relative_path, and the
\* request ends with a server error
poll_output_path ==
    /\ poll.pc = "output_path"
    /\ poll' = [poll EXCEPT !.output_path = jobs[poll.job].output_path,
                            !.pc = IF jobs[poll.job].output_path = None
                                   THEN "done" ELSE "summary",
                            !.http = IF jobs[poll.job].output_path = None
                                     THEN 500 ELSE 0]

\* line 194
poll_summary ==
    /\ poll.pc = "summary"
    /\ poll' = [poll EXCEPT !.pc = "detections_count",
                            !.summary = jobs[poll.job].summary]

\* line 195
poll_detections_count ==
    /\ poll.pc = "detections_count"
    /\ poll' = [poll EXCEPT !.pc = "done", !.http = 200,
                            !.detections_count = jobs[poll.job].detections_count]

\* line 197
poll_error ==
    /\ poll.pc = "error"
    /\ poll' = [poll EXCEPT !.pc = "done", !.http = 200,
                            !.error = jobs[poll.job].error]

GetVideoJobStatus ==
    /\ \/ \E j \in JobIds : poll_status(j)
       \/ poll_progress
       \/ poll_if_completed
       \/ poll_elif_failed
       \/ poll_completed_at
       \/ poll_output_path
       \/ poll_summary
       \/ poll_detections_count
       \/ poll_error
    /\ UNCHANGED jobVars
    /\ UNCHANGED liveVars

----------------------------------------------------------------------------
(* CentroidTracker (app/models/tracker.py) *)

\* the tracker's fields as one value
Tracker == [next_object_id |-> next_object_id, objects |-> objects,
            disappeared |-> disappeared]

\* lines 75-77: ((x1 + x2) / 2.0, (y1 + y2) / 2.0). Both coordinates are kept
\* doubled, which keeps them integers and keeps the order of the distances.
Centroid(box) == <<box[1] + box[3], box[2] + box[4]>>

\* lines 96-98: dx * dx + dy * dy; the square root does not change the order
Distance(a, b) ==
    (a[1] - b[1]) * (a[1] - b[1]) + (a[2] - b[2]) * (a[2] - b[2])

\* mutant of register: next_object_id is not advanced
registerSameId(T, centroid) ==
    [next_object_id |-> T.next_object_id,
     objects |-> Put(T.objects, T.next_object_id, centroid),
     disappeared |-> Put(T.disappeared, T.next_object_id, 0)]

\* register, lines 34-38; the id it returns is T.next_object_id
register(T, centroid) ==
    [next_object_id |-> T.next_object_id + 1,
     objects |-> Put(T.objects, T.next_object_id, centroid),
     disappeared |-> Put(T.disappeared, T.next_object_id, 0)]

\* mutant of deregister: the counter is left behind
deregisterObjectsOnly(T, object_id) ==
    [T EXCEPT !.objects = Del(T.objects, object_id)]

\* deregister, lines 47-48
deregister(T, object_id) ==
    [T EXCEPT !.objects = Del(T.objects, object_id),
              !.disappeared = Del(T.disappeared, object_id)]

\* mutant of TooLong: retired one update early
TooLongAtLimit(count) == count >= max_disappeared

\* mutant of TooLong: retired one update late
TooLongOneLate(count) == count > max_disappeared + 1

\* lines 66 and 130: disappeared[object_id] > max_disappeared
TooLong(count) == count > max_disappeared

\* lines 63-67 and 128-131: count one more miss, deregister when too long
Disappear(T, object_id) ==
    LET T1 == [T EXCEPT !.disappeared[object_id] = @ + 1]
    IN  IF TooLong(T1.disappeared[object_id]) THEN deregister(T1, object_id) ELSE T1

RECURSIVE DisappearAll(_, _)
DisappearAll(T, ids) ==
    IF ids = {} THEN T
    ELSE LET id == CHOOSE x \in ids : \A y \in ids : x <= y
         IN  DisappearAll(Disappear(T, id), ids \ {id})

\* a set of numbers as the ascending list
RECURSIVE Ascending(_)
Ascending(S) ==
    IF S = {} THEN <<>>
    ELSE LET x == CHOOSE a \in S : \A b \in S : a <= b
         IN  <<x>> \o Ascending(S \ {x})

\* mutant of Prepend: the pair of a registered box is not put into the result
PrependNoPair(id, box, rest) ==
    [rest EXCEPT !.registered = <<id>> \o @]

\* lines 80-85 and 135-137: register the boxes at the columns cols, in order
Prepend(id, box, rest) ==
    [T |-> rest.T,
     results |-> <<  <<id, box>>  >> \o rest.results,
     registered |-> <<id>> \o rest.registered]

RECURSIVE RegisterEach(_, _, _, _)
RegisterEach(T, boxes, cols, k) ==
    IF k > Len(cols) THEN [T |-> T, results |-> <<>>, registered |-> <<>>]
    ELSE Prepend(T.next_object_id, boxes[cols[k]],
                 RegisterEach(register(T, Centroid(boxes[cols[k]])), boxes, cols, k + 1))

\* mutant of Skip: the column test is inverted
SkipUnlessUsed(row, col, used_rows, used_cols) ==
    row \in used_rows \/ col \notin used_cols

\* line 111: if row in used_rows or col in used_cols: continue
Skip(row, col, used_rows, used_cols) ==
    row \in used_rows \/ col \in used_cols

\* lines 110-122: the pairs <<row, col>> the loop matches, in order
RECURSIVE Greedy(_, _, _, _, _)
Greedy(rows, cols, k, used_rows, used_cols) ==
    IF k > Len(rows) THEN <<>>
    ELSE IF Skip(rows[k], cols[k], used_rows, used_cols)
         THEN Greedy(rows, cols, k + 1, used_rows, used_cols)
         ELSE <<  <<rows[k], cols[k]>>  >>
              \o Greedy(rows, cols, k + 1, used_rows \cup {rows[k]},
                        used_cols \cup {cols[k]})

\* lines 87-139: the update with existing objects and at least one box.
\* object_ids lists the keys in insertion order, which is ascending: ids are
\* inserted in increasing order and re-assigning a key keeps its place.
\* argsort of at most 16 values is an insertion sort, hence stable; argmin
\* returns the first minimum. The unused columns, a set of small ints, are
\* visited in ascending order.
Match(T, boxes) ==
    LET object_ids == Ascending(DOMAIN T.objects)
        n == Len(object_ids)
        m == Len(boxes)
        distances == [i \in 1..n |-> [j \in 1..m |->
                        Distance(T.objects[object_ids[i]], Centroid(boxes[j]))]]
        row_min == [i \in 1..n |->
                      CHOOSE d \in {distances[i][j] : j \in 1..m} :
                          \A j \in 1..m : d <= distances[i][j]]
        arg_min == [i \in 1..n |->
                      CHOOSE j \in 1..m :
                          /\ distances[i][j] = row_min[i]
                          /\ \A k \in 1..(j - 1) : distances[i][k] # row_min[i]]
        rank == [i \in 1..n |->
                   Cardinality({a \in 1..n :
                       \/ row_min[a] < row_min[i]
                       \/ (row_min[a] = row_min[i] /\ a < i)})]
        rows == [r \in 1..n |-> CHOOSE i \in 1..n : rank[i] = r - 1]
        cols == [r \in 1..n |-> arg_min[rows[r]]]
        matches == Greedy(rows, cols, 1, {}, {})
        used_rows == {matches[k][1] : k \in 1..Len(matches)}
        used_cols == {matches[k][2] : k \in 1..Len(matches)}
        matched == {object_ids[i] : i \in used_rows}
        col_of == [id \in matched |->
                     LET k == CHOOSE k \in 1..Len(matches) :
                                  object_ids[matches[k][1]] = id
                     IN  matches[k][2]]
        T1 == [T EXCEPT
                 !.objects = [id \in DOMAIN T.objects |->
                     IF id \in matched THEN Centroid(boxes[col_of[id]])
                     ELSE T.objects[id]],
                 !.disappeared = [id \in DOMAIN T.disappeared |->
                     IF id \in matched THEN 0 ELSE T.disappeared[id]]]
        T2 == DisappearAll(T1, {object_ids[i] : i \in (1..n) \ used_rows})
        new == RegisterEach(T2, boxes, Ascending((1..m) \ used_cols), 1)
    IN  [T |-> new.T,
         results |-> [k \in 1..Len(matches) |->
                         <<object_ids[matches[k][1]], boxes[matches[k][2]]>>]
                     \o new.results,
         registered |-> new.registered]

\* mutant of update: a box is never matched to a track
updateRegistersAll(T, boxes) ==
    IF Len(boxes) = 0
    THEN [T |-> DisappearAll(T, DOMAIN T.disappeared),
          results |-> <<>>, registered |-> <<>>]
    ELSE RegisterEach(T, boxes, [k \in 1..Len(boxes) |-> k], 1)

\* CentroidTracker.update
update(T, boxes) ==
    IF Len(boxes) = 0
    THEN [T |-> DisappearAll(T, DOMAIN T.disappeared),
          results |-> <<>>, registered |-> <<>>]
    ELSE IF DOMAIN T.objects = {}
    THEN RegisterEach(T, boxes, [k \in 1..Len(boxes) |-> k], 1)
    ELSE Match(T, boxes)

----------------------------------------------------------------------------
(* websocket_live (app/routes/ws.py) *)

Ids(results) == {results[k][1] : k \in 1..Len(results)}

\* what detect_faces returns for a frame: each face reported once
Frames ==
    UNION {{f \in [1..n -> Boxes] : \A a, b \in 1..n : a # b => f[a] # f[b]} :
              n \in 0..MaxBoxes}

\* what mask_classifier.predict returns for the faces of a frame of n boxes
LabelsFor(n) == [1..n -> LABELS]
AllMaskOn(n) == [k \in 1..n |-> "MASK_ON"]

\* line 111: f"track_{track_id}"
track_id_str(track_id) == "track_" \o ToString(track_id)

\* lines 101-102: face = frame[y1:y2, x1:x2]; face.size
face_size(box) == Max(0, box[3] - box[1]) * Max(0, box[4] - box[2])

\* line 147-153: the entry of the response for one face
Detection(track_id, label, alert) ==
    [track_id |-> track_id_str(track_id), label |-> label, alert |-> alert]

\* what the handler has done so far for the faces of a frame
NoFaces(E) == [E |-> E, detections |-> <<>>, rows |-> <<>>, checks |-> <<>>]

\* mutant of ProcessFace: a violation is logged and flagged without asking
\* should_alert
ProcessFaceUngated(E, track_id, label, current_time) ==
    LET g == log_detection(E, "live", label, track_id_str(track_id),
                           TRUE, current_time)
    IN  [E |-> g.E, rows |-> g.rows, checks |-> g.checks,
         alert |-> label \in VIOLATION_LABELS]

\* mutant of ProcessFace: the log_detection call of an alert goes without
\* force_log, so that it asks should_alert once more
ProcessFaceUnforced(E, track_id, label, current_time) ==
    IF label \in VIOLATION_LABELS
    THEN LET a == should_alert(E, track_id_str(track_id), current_time) IN
         IF a.ret
         THEN LET g == log_detection(a.E, "live", label, track_id_str(track_id),
                                     FALSE, current_time)
              IN  [E |-> g.E, rows |-> g.rows,
                   checks |-> <<Check(track_id_str(track_id), TRUE)>> \o g.checks,
                   alert |-> TRUE]
         ELSE [E |-> a.E, rows |-> <<>>,
               checks |-> <<Check(track_id_str(track_id), FALSE)>>,
               alert |-> FALSE]
    ELSE LET g == log_detection(E, "live", label, track_id_str(track_id),
                                FALSE, current_time)
         IN  [E |-> g.E, rows |-> g.rows, checks |-> g.checks, alert |-> FALSE]

\* lines 108-144: the logging policy for one classified face
ProcessFace(E, track_id, label, current_time) ==
    IF label \in VIOLATION_LABELS
    THEN LET a == should_alert(E, track_id_str(track_id), current_time) IN
         IF a.ret
         THEN LET g == log_detection(a.E, "live", label, track_id_str(track_id),
                                     TRUE, current_time)
              IN  [E |-> g.E, rows |-> g.rows,
                   checks |-> <<Check(track_id_str(track_id), TRUE)>> \o g.checks,
                   alert |-> TRUE]
         ELSE [E |-> a.E, rows |-> <<>>,
               checks |-> <<Check(track_id_str(track_id), FALSE)>>,
               alert |-> FALSE]
    ELSE LET g == log_detection(E, "live", label, track_id_str(track_id),
                                FALSE, current_time)
         IN  [E |-> g.E, rows |-> g.rows, checks |-> g.checks, alert |-> FALSE]

\* lines 97-153: the loop over the tracked faces k..n, labels[k] being what
\* predict returns for the k-th of them
RECURSIVE ProcessFaces(_, _, _, _, _, _)
ProcessFaces(acc, tracked, labels, k, n, current_time) ==
    IF k > n THEN acc
    ELSE IF face_size(tracked[k][2]) = 0
    THEN ProcessFaces(acc, tracked, labels, k + 1, n, current_time)
    ELSE LET p == ProcessFace(acc.E, tracked[k][1], labels[k], current_time)
         IN  ProcessFaces(
                 [E |-> p.E,
                  detections |-> Append(acc.detections,
                                     Detection(tracked[k][1], labels[k], p.alert)),
                  rows |-> acc.rows \o p.rows,
                  checks |-> acc.checks \o p.checks],
                 tracked, labels, k + 1, n, current_time)

\* where the processing of a frame of n tracked faces can raise: in
\* detect_faces (line 88), or for the k-th face in predict (line 106) or in
\* db.log_event under log_detection (lines 127, 139)
LiveRaises(n) ==
    {[e |-> "detect_faces", k |-> 0]}
    \cup {[e |-> "predict", k |-> k] : k \in 1..n}
    \cup {[e |-> "log_detection", k |-> k] : k \in 1..n}

\* the faces before the k-th are done; the k-th got as far as the raise
ProcessUntil(E, tracked, labels, x, current_time) ==
    LET done == ProcessFaces(NoFaces(E), tracked, labels, 1, x.k - 1, current_time)
    IN  IF x.e = "log_detection" /\ labels[x.k] \in VIOLATION_LABELS
        THEN LET a == should_alert(done.E, track_id_str(tracked[x.k][1]),
                                   current_time)
             IN  [done EXCEPT !.E = a.E,
                      !.checks = @ \o <<Check(track_id_str(tracked[x.k][1]), a.ret)>>]
        ELSE done

\* the raise at x is reached: predict only for a face that is not empty,
\* log_detection then always for a compliant label, and for a violation only
\* when should_alert returned True
Reaches(E, tracked, labels, x, current_time) ==
    /\ face_size(tracked[x.k][2]) # 0
    /\ x.e = "log_detection" /\ labels[x.k] \in VIOLATION_LABELS =>
           LET done == ProcessFaces(NoFaces(E), tracked, labels, 1, x.k - 1,
                                    current_time)
           IN  should_alert(done.E, track_id_str(tracked[x.k][1]),
                            current_time).ret

\* what the last step of a websocket_live activation did: for whom, which
\* branch, the detections of the response, the rows inserted into events and
\* the should_alert calls made; faces is the set of boxes detect_faces
\* returned to a frame handled to the end
Handled(c, kind, detections, rows, checks) ==
    [client |-> c, kind |-> kind, detections |-> detections, rows |-> rows,
     checks |-> checks, faces |-> {}]
NothingHandled == Handled(None, "none", <<>>, <<>>, <<>>)

\* the history variables of the tracker after update returned u for boxes
Observed(u, boxes) ==
    LET returned == Ids(u.results) IN
    /\ last_result' = u.results
    /\ issued' = issued \o u.registered
    /\ missed' = [id \in DOMAIN missed \cup returned |->
                     IF id \in returned THEN 0
                     ELSE IF missed[id] <= max_disappeared
                          THEN missed[id] + 1 ELSE missed[id]]
    /\ retired' = retired \cup
                     {id \in DOMAIN missed' : missed'[id] > max_disappeared}
    /\ single_run' = IF single_run >= 0 /\ Len(boxes) = 1
                     THEN Min(single_run + 1, 2) ELSE -1

\* line 42: manager.connect
Connect(c) ==
    /\ c \notin active_connections
    /\ active_connections' = active_connections \cup {c}
    /\ handled' = Handled(c, "connect", <<>>, <<>>, <<>>)
    /\ UNCHANGED <<next_object_id, objects, disappeared, last_result, issued,
                   missed, retired, single_run>>
    /\ UNCHANGED <<loggerVars, scenario>>
    /\ UNCHANGED <<jobs, run, video_events, poll>>

\* lines 53-64: a config message; seconds is its cooldown_seconds, a None
\* standing for a message without one. snapshots_enabled steers only whether
\* a snapshot file is saved and is left out.
Config(c, seconds) ==
    /\ c \in active_connections
    /\ \E E \in {IF seconds.type = "None" THEN Logger
                 ELSE set_cooldown(Logger, seconds)} :
          /\ last_alert_time' = E.last_alert_time
          /\ cooldown_seconds' = E.cooldown_seconds
    /\ handled' = Handled(c, "config_ack", <<>>, <<>>, <<>>)
    /\ UNCHANGED <<clock, call, history, scenario>>
    /\ UNCHANGED trackerVars
    /\ UNCHANGED <<jobs, run, video_events, poll>>

\* lines 66-164: a frame message that decodes; detect_faces returns boxes and
\* predict returns labels[k] for the k-th tracked face
LiveFrame(c, boxes, labels) ==
    /\ c \in active_connections
    /\ next_object_id + Len(boxes) <= MaxTrackIds
    /\ \E u \in {update(Tracker, boxes)} :
          /\ next_object_id' = u.T.next_object_id
          /\ objects' = u.T.objects
          /\ disappeared' = u.T.disappeared
          /\ Observed(u, boxes)
          /\ \E p \in {ProcessFaces(NoFaces(Logger), u.results, labels, 1,
                                    Len(u.results), clock)} :
                /\ last_alert_time' = p.E.last_alert_time
                /\ cooldown_seconds' = p.E.cooldown_seconds
                /\ handled' = [Handled(c, "frame", p.detections, p.rows, p.checks)
                                  EXCEPT !.faces = {boxes[k] : k \in 1..Len(boxes)}]
    /\ UNCHANGED <<active_connections, clock, call, history, scenario>>
    /\ UNCHANGED <<jobs, run, video_events, poll>>

\* lines 75-85: the frame data does not decode; the loop continues
FrameSkipped(c) ==
    /\ c \in active_connections
    /\ handled' = Handled(c, "frame_skipped", <<>>, <<>>, <<>>)
    /\ UNCHANGED <<loggerVars, scenario>>
    /\ UNCHANGED trackerVars
    /\ UNCHANGED <<jobs, run, video_events, poll>>

\* lines 87-153 and 177-179: a frame message whose processing raises at x;
\* the exception leaves the loop and the handler drops the connection
FrameError(c, boxes, labels, x) ==
    /\ c \in active_connections
    /\ next_object_id + Len(boxes) <= MaxTrackIds
    /\ active_connections' = active_connections \ {c}
    /\ \/ /\ x.e = "detect_faces"
          /\ handled' = Handled(c, "frame_error", <<>>, <<>>, <<>>)
          /\ UNCHANGED <<next_object_id, objects, disappeared, last_result, issued,
                         missed, retired, single_run>>
          /\ UNCHANGED <<last_alert_time, cooldown_seconds>>
       \/ /\ x.e # "detect_faces"
          /\ x.k <= Len(boxes)
          /\ \E u \in {update(Tracker, boxes)} :
                /\ Reaches(Logger, u.results, labels, x, clock)
                /\ next_object_id' = u.T.next_object_id
                /\ objects' = u.T.objects
                /\ disappeared' = u.T.disappeared
                /\ Observed(u, boxes)
                /\ \E p \in {ProcessUntil(Logger, u.results, labels, x, clock)} :
                      /\ last_alert_time' = p.E.last_alert_time
                      /\ cooldown_seconds' = p.E.cooldown_seconds
                      /\ handled' = Handled(c, "frame_error", p.detections,
                                            p.rows, p.checks)
    /\ UNCHANGED <<clock, call, history, scenario>>
    /\ UNCHANGED <<jobs, run, video_events, poll>>

\* lines 166-168: a ping message
Ping(c) ==
    /\ c \in active_connections
    /\ handled' = Handled(c, "pong", <<>>, <<>>, <<>>)
    /\ UNCHANGED <<loggerVars, scenario>>
    /\ UNCHANGED trackerVars
    /\ UNCHANGED <<jobs, run, video_events, poll>>

\* lines 170-175: WebSocketDisconnect
Disconnect(c) ==
    /\ c \in active_connections
    /\ active_connections' = active_connections \ {c}
    /\ objects' = <<>>
    /\ disappeared' = <<>>
    /\ \E E \in {reset_cooldowns(Logger)} :
          /\ last_alert_time' = E.last_alert_time
          /\ cooldown_seconds' = E.cooldown_seconds
    /\ missed' = [id \in retired |-> missed[id]]
    /\ single_run' = -1
    /\ handled' = Handled(c, "disconnect", <<>>, <<>>, <<>>)
    /\ UNCHANGED <<next_object_id, last_result, issued, retired>>
    /\ UNCHANGED <<clock, call, history, scenario>>
    /\ UNCHANGED <<jobs, run, video_events, poll>>

\* lines 177-179: any other exception (a message that is not JSON, a failed
\* send) ends the session
SessionError(c) ==
    /\ c \in active_connections
    /\ active_connections' = active_connections \ {c}
    /\ handled' = Handled(c, "session_error", <<>>, <<>>, <<>>)
    /\ UNCHANGED <<next_object_id, objects, disappeared, last_result, issued,
                   missed, retired, single_run>>
    /\ UNCHANGED <<loggerVars, scenario>>
    /\ UNCHANGED <<jobs, run, video_events, poll>>

----------------------------------------------------------------------------
(* CentroidTracker.update applied to a given sequence of frames *)

NoScenario == [frames |-> <<>>, ids |-> <<>>]

\* the next frame of the sequence goes through update
ScenarioUpdate ==
    /\ Len(scenario.ids) < Len(scenario.frames)
    /\ LET boxes == scenario.frames[Len(scenario.ids) + 1] IN
       \E u \in {update(Tracker, boxes)} :
          /\ next_object_id' = u.T.next_object_id
          /\ objects' = u.T.objects
          /\ disappeared' = u.T.disappeared
          /\ Observed(u, boxes)
          /\ scenario' = [scenario EXCEPT !.ids = Append(@, Ids(u.results))]
    /\ UNCHANGED <<active_connections, handled>>
    /\ UNCHANGED loggerVars
    /\ UNCHANGED <<jobs, run, video_events, poll>>

----------------------------------------------------------------------------
InitJobs ==
    /\ jobs = <<>>
    /\ run = <<>>
    /\ video_events = <<>>
    /\ poll = NoPoll

InitTracker ==
    /\ next_object_id = 0
    /\ objects = <<>>
    /\ disappeared = <<>>
    /\ active_connections = {}
    /\ last_result = <<>>
    /\ issued = <<>>
    /\ missed = <<>>
    /\ retired = {}
    /\ single_run = 0

InitLogger ==
    /\ last_alert_time = <<>>
    /\ cooldown_seconds = ALERT_COOLDOWN_SECONDS
    /\ clock = StartTime
    /\ call = NoCall
    /\ history = <<>>
    /\ handled = NothingHandled

Init == InitJobs /\ InitTracker /\ InitLogger /\ scenario = NoScenario

\* the job engine as the application drives it: one process_video per job
Next ==
    \/ CreateVideoJob
    \/ \E j \in JobIds : pv_start(j)
    \/ \E j \in JobIds : pv_open(j)
    \/ \E j \in JobIds : pv_frame(j)
    \/ \E j \in JobIds : complete_job(j)
    \/ \E j \in JobIds : fail_job(j)

Spec == Init /\ [][Next]_vars

\* the steps of a process_video activation once it has started: the thread
\* that runs it is scheduled again and again until the function returns
Worker(j) == pv_open(j) \/ pv_frame(j) \/ complete_job(j) \/ fail_job(j)

SpecFair == Spec /\ \A j \in JobIds : WF_vars(Worker(j))

\* the job engine with the 100-frame video among the uploads
NextExample ==
    \/ Next
    \/ CreateExampleJob

SpecExample == Init /\ [][NextExample]_vars

\* two uploads in any order, each with its own worker
NextTwo ==
    \/ Next
    \/ CreateSecondJob
    \/ pv_start(SecondJob)
    \/ pv_open(SecondJob)
    \/ fail_job(SecondJob)

SpecTwo == Init /\ [][NextTwo]_vars

\* the same with process_video callable again for a job id
NextOps ==
    \/ Next
    \/ \E j \in JobIds : pv_again(j)

SpecOps == Init /\ [][NextOps]_vars

\* the job engine with a client polling the status endpoint
NextPoll ==
    \/ Next
    \/ GetVideoJobStatus

SpecPoll == Init /\ [][NextPoll]_vars

\* the live path: sessions, one after another, feeding the process-wide
\* tracker, every face classified MASK_ON (the tracker never sees the labels
\* or the client; a frame of a second open session reaches it as one more
\* frame, and SpecLive has two sessions open)
TrackerClients == {"client_1"}

NextTracker ==
    \/ \E c \in TrackerClients : Connect(c)
    \/ \E c \in TrackerClients, boxes \in Frames :
          LiveFrame(c, boxes, AllMaskOn(Len(boxes)))
    \/ \E c \in TrackerClients : Disconnect(c)
    \/ \E c \in TrackerClients : SessionError(c)

SpecTracker == Init /\ [][NextTracker]_vars

\* the event logger called from outside while the clock runs
NextLogger ==
    \/ \E d \in TickSteps : Tick(d)
    \/ \E track_id \in Identities : ShouldAlert(track_id)
    \/ \E source \in Sources, label \in LABELS,
          track_id \in Identities \cup {None}, force_log \in BOOLEAN :
          LogDetection(source, label, track_id, force_log)
    \/ \E seconds \in SecondsInputs : SetCooldown(seconds)
    \/ ResetCooldowns

SpecLogger == Init /\ [][NextLogger]_vars

\* what detect_faces returns in a session with its logging followed: no
\* box, or one
LiveFrames == {<<>>} \cup {<<b>> : b \in LiveBoxes}

\* those of them that keep the ids issued within MaxLiveIds
LiveFramesNow == {f \in LiveFrames : next_object_id + Len(f) <= MaxLiveIds}

\* a frame with the classification of each of its faces
LiveInputs ==
    UNION {{[boxes |-> f, labels |-> l] : l \in LabelsFor(Len(f))} : f \in LiveFramesNow}

\* the same with the face whose processing raises
LiveFailures ==
    UNION {{[boxes |-> i.boxes, labels |-> i.labels, x |-> x] :
                x \in LiveRaises(Len(i.boxes))} : i \in LiveInputs}

\* the live path in full: sessions, their frames with any labels, config
\* messages, failures, and a clock that jumps a default cooldown at a time
NextLive ==
    \/ \E c \in Clients : Connect(c)
    \/ \E c \in Clients, seconds \in ConfigInputs : Config(c, seconds)
    \/ \E c \in Clients, i \in LiveInputs : LiveFrame(c, i.boxes, i.labels)
    \/ \E c \in Clients : FrameSkipped(c)
    \/ \E c \in Clients, i \in LiveFailures : FrameError(c, i.boxes, i.labels, i.x)
    \/ \E c \in Clients : Ping(c)
    \/ \E c \in Clients : Disconnect(c)
    \/ \E c \in Clients : SessionError(c)
    \/ Tick(ALERT_COOLDOWN_SECONDS)

SpecLive == Init /\ [][NextLive]_vars

\* update applied to every sequence of ScenarioLen one-box frames
ScenarioInputs == [1..ScenarioLen -> {<<b>> : b \in ScenarioBoxes \cup {<<0, 0, 2, 2>>}}]

InitScenario ==
    /\ InitJobs /\ InitTracker /\ InitLogger
    /\ scenario \in {[frames |-> f, ids |-> <<>>] : f \in ScenarioInputs}

SpecScenario == InitScenario /\ [][ScenarioUpdate]_vars

----------------------------------------------------------------------------
(* The job engine: claims *)

Terminal == {COMPLETED, FAILED}
LegalMoves == {<<PENDING, PROCESSING>>, <<PROCESSING, COMPLETED>>,
               <<PROCESSING, FAILED>>}

\* C1: a job's status only moves pending -> processing -> completed | failed,
\* and once a JobManager call has left the job completed or failed no later
\* operation, a further process_video run for the same id included, changes
\* its status or any other field.
C1_TerminalIsFinal ==
    [][\A j \in DOMAIN jobs :
          /\ jobs'[j].status # jobs[j].status
                => <<jobs[j].status, jobs'[j].status>> \in LegalMoves
          /\ (jobs[j].status \in Terminal /\ run[j].pc = "returned")
                => jobs'[j] = jobs[j]]_vars

\* C2: a finished status request that reports completed also reports progress
\* 100, an output reference, the summary and completed_at, and one that
\* reports failed also reports a non-empty error.
C2_NoTornRead ==
    poll.pc = "done" =>
       /\ poll.status = COMPLETED =>
             /\ poll.http = 200
             /\ poll.progress = 100
             /\ poll.output_path \notin {None, Unread}
             /\ poll.summary \notin {EmptyDict, UnreadDict}
             /\ poll.completed_at \notin {None, Unread}
       /\ poll.status = FAILED =>
             /\ poll.http = 200
             /\ poll.error \notin {None, Unread, ""}

\* C3: whenever a job is completed or failed, the capture and the writer its
\* worker opened have been released.
C3_HandlesReleased ==
    \A j \in DOMAIN jobs :
        jobs[j].status \in Terminal => ~run[j].cap /\ ~run[j].out

\* C4: a job whose input cannot be opened moves pending -> processing ->
\* failed and nowhere else, is never completed, keeps its output reference and
\* summary unset, and ends failed with a non-empty error.
C4_UnopenableState ==
    \A j \in DOMAIN jobs :
        ~isOpened(jobs[j].input_path) =>
            /\ jobs[j].status # COMPLETED
            /\ jobs[j].output_path = None
            /\ jobs[j].summary = EmptyDict
            /\ run[j].pc = "returned" =>
                   /\ jobs[j].status = FAILED
                   /\ jobs[j].error \notin {None, ""}

C4_UnopenableMove ==
    \A j \in DOMAIN jobs :
        (~isOpened(jobs[j].input_path) /\ jobs'[j].status # jobs[j].status) =>
            <<jobs[j].status, jobs'[j].status>> \in
                {<<PENDING, PROCESSING>>, <<PROCESSING, FAILED>>}

\* C4, both parts: the state invariant and the moves of the status, for
\* every job whose input cannot be opened.
C4_UnopenableFails == [](C4_UnopenableState) /\ [][C4_UnopenableMove]_vars

C4_Witness ==
    \E j \in DOMAIN jobs :
        /\ ~isOpened(jobs[j].input_path)
        /\ run[j].pc = "returned"
        /\ jobs[j].status = FAILED
        /\ jobs[j].error = ErrorMsg("Failed to open video file")

\* C5: progress is 100 exactly when the status is completed. Stated for the
\* states in which no complete_job call is under way, where the claim has to
\* hold whatever one takes the stores of one call to be.
C5_FullIffCompleted ==
    \A j \in DOMAIN jobs :
        run[j].pc \notin CompletePcs =>
            (jobs[j].progress = 100 <=> jobs[j].status = COMPLETED)

\* C6: a job's progress stays within 0..100 and no step lowers it: every
\* value the worker stores after a sampled frame, and the value complete_job
\* stores, is at least the value before.
C6_ProgressMonotone ==
    /\ [](\A j \in DOMAIN jobs : jobs[j].progress \in 0..100)
    /\ [][\A j \in DOMAIN jobs : jobs'[j].progress >= jobs[j].progress]_vars

C6_Witness ==
    \E j \in DOMAIN jobs :
        /\ run[j].pc = "loop"
        /\ run[j].processed_frames >= 3
        /\ jobs[j].progress \in 26..99

----------------------------------------------------------------------------
(* The tracker: claims *)

\* ids that were issued and later cleared by a disconnect
Cleared == {issued[k] : k \in 1..Len(issued)} \ (DOMAIN missed \cup DOMAIN objects)

\* C7: the ids register hands out are strictly increasing in the order they
\* are issued, so none is issued twice, also after tracks were retired and
\* after a disconnect cleared the track set.
C7_IdsIncrease ==
    \A a, b \in 1..Len(issued) : a < b => issued[a] < issued[b]

C7_Witness ==
    \E a \in retired : \E b \in Cleared : \E c \in DOMAIN objects :
        c > a /\ c > b

\* C8: a track is in the track set exactly while the number of consecutive
\* updates that did not return its id is at most max_disappeared, and an id
\* that went beyond that is never in the track set or in a result again.
C8_RetiredWhenTooLong ==
    /\ \A id \in DOMAIN missed :
           id \in DOMAIN objects <=> missed[id] <= max_disappeared
    /\ \A id \in retired :
           id \notin DOMAIN objects /\ id \notin Ids(last_result)

C8_Witness ==
    /\ retired # {}
    /\ \E id \in DOMAIN objects : missed[id] = max_disappeared
    /\ last_result # <<>>

\* C9: the centroid map and the disappeared-counter map have the same keys.
C9_SameKeys == DOMAIN objects = DOMAIN disappeared

C9_Witness ==
    /\ retired # {}
    /\ Cleared # {}
    /\ Cardinality(DOMAIN objects) >= 2

\* C10: on a fresh tracker fed one box per frame, every result carries id 0
\* and no second id is issued.
C10_SingleBoxKeepsId ==
    single_run >= 1 =>
        /\ Ids(last_result) = {0}
        /\ Len(last_result) = 1
        /\ issued = <<0>>
        /\ next_object_id = 1

C10_Witness ==
    /\ single_run = 2
    /\ last_result = <<  <<0, <<2, 2, 4, 4>>>>  >>
    /\ objects = (0 :> <<6, 6>>)

\* C20: every frame read from the input is written to the output exactly
\* once and in input order, so the output holds as many frames as were read.
C20_EveryFrameWritten ==
    \A j \in DOMAIN jobs :
        run[j].pc \in {"loop"} \cup CompletePcs =>
            run[j].written = [k \in 1..run[j].frame_idx |-> k - 1]

----------------------------------------------------------------------------
(* The tracker on a given sequence of frames: claims *)

\* the first three frames hold one box each, with centroids (10, 10),
\* (12, 11) and (50, 50), and update has returned for all three
NearNearFar ==
    /\ Len(scenario.ids) >= 3
    /\ \A k \in 1..3 : Len(scenario.frames[k]) = 1
    /\ [k \in 1..3 |-> Centroid(scenario.frames[k][1])]
           = << <<20, 20>>, <<24, 22>>, <<100, 100>> >>

\* C11: from a fresh tracker, three updates of one box each with centroids
\* (10, 10), (12, 11), (50, 50) return the id sets {0}, {0} and {0, 1}.
C11_FarBoxIsNewTrack ==
    NearNearFar => SubSeq(scenario.ids, 1, 3) = <<{0}, {0}, {0, 1}>>

\* C11, amended: the three updates return {0}, {0} and {0}: the far box is
\* matched to track 0 as well, and id 0 is the only id issued.
C11_FarBoxKeepsTrack ==
    NearNearFar =>
        /\ SubSeq(scenario.ids, 1, 3) = <<{0}, {0}, {0}>>
        /\ issued = <<0>>
        /\ next_object_id = 1

C11_Witness ==
    /\ NearNearFar
    /\ Len(scenario.ids) = 3
    /\ objects = (0 :> <<100, 100>>)
    /\ disappeared = (0 :> 0)

----------------------------------------------------------------------------
(* The event logger: claims *)

\* C12: should_alert returns True for every identity without a recorded
\* last-alert time, whatever the clock shows and whatever window set_cooldown
\* has set.
C12_UnseenAlwaysAlerts ==
    (call.op = "should_alert" /\ call.since_last = Never) => call.ret

\* C13: for one identity, with no reset_cooldowns or set_cooldown in between,
\* should_alert returns True exactly when at least cooldown_seconds have
\* passed since the last call that returned True for it (so two True results
\* are at least cooldown_seconds apart; with a window of 10, calls at t,
\* t + 5 and t + 11 return True, False, True).
C13_TrueIffWindowElapsed ==
    (call.op = "should_alert" /\ call.since_true # Never) =>
        (call.ret <=> call.since_true >= call.window)

C13_Witness ==
    /\ call.op = "should_alert"
    /\ call.ret
    /\ call.window = 10
    /\ call.since_true = 11
    /\ call.since_denied = 6

\* C17: log_detection with source image or video inserts one row whatever
\* the cooldown state, returns should_alert = True exactly for a violation
\* label, and leaves every recorded last-alert time as it was.
C17_BatchAlwaysLogged ==
    (call.op = "log_detection" /\ call.source \in {"image", "video"}) =>
        /\ call.rows = 1
        /\ call.ret <=> call.label \in VIOLATION_LABELS
        /\ last_alert_time = call.before

C17_Witness ==
    /\ call.op = "log_detection"
    /\ call.source = "video"
    /\ call.label = "NO_MASK"
    /\ call.track_id \in DOMAIN last_alert_time
    /\ clock - last_alert_time[call.track_id] < cooldown_seconds
    /\ call.rows = 1
    /\ call.ret

\* C18: set_cooldown(s) changes the window and nothing else: every recorded
\* last-alert time stays, and the very next should_alert for an identity is
\* decided against the new window.
C18_SetCooldownOnlyWindow ==
    /\ call.op = "set_cooldown" =>
          /\ last_alert_time = call.before
          /\ (call.seconds.type = "int" /\ call.seconds.v >= 1) =>
                 cooldown_seconds = call.seconds.v
    /\ (call.op = "should_alert" /\ call.requested # Never
            /\ call.since_last # Never) =>
          (call.ret <=> call.since_last >= call.requested)

C18_Witness ==
    /\ call.op = "should_alert"
    /\ call.requested = 5
    /\ call.since_last = 5
    /\ call.ret

----------------------------------------------------------------------------
(* The live session: claims *)

SessionEnds == {"disconnect", "frame_error", "session_error"}

\* C14: when a live session has ended, by a disconnect or by an error that
\* left the loop, no last-alert time and no track is left for a later
\* session to meet (stated for the moments no other session is open).
C14_EndClearsState ==
    (handled.kind \in SessionEnds /\ active_connections = {}) =>
        /\ DOMAIN last_alert_time = {}
        /\ DOMAIN objects = {}
        /\ DOMAIN disappeared = {}

\* the detections a session would be answered with for a frame
Answer(T, E, boxes, labels, current_time) ==
    ProcessFaces(NoFaces(E), update(T, boxes).results, labels, 1, Len(boxes),
                 current_time).detections

\* C15: with two sessions open, no frame, config message or disconnect of
\* one changes the track ids or the alert flags the other would be answered
\* with for any frame.
C15_SessionsIsolated ==
    [][\A c \in Clients :
          (/\ clock' = clock
           /\ c \in active_connections
           /\ handled'.client = c
           /\ \E d \in Clients \ {c} :
                  d \in active_connections /\ d \in active_connections') =>
             \A boxes \in LiveFrames : \A labels \in LabelsFor(Len(boxes)) :
                 Answer(Tracker', Logger', boxes, labels, clock)
                     = Answer(Tracker, Logger, boxes, labels, clock)]_vars

\* C16: in the answer to a frame, a face with a violation label has its
\* alert flag True and one row inserted exactly when the should_alert call
\* for its "track_<id>" returned True, and otherwise no row and the flag
\* False; a face with a compliant label has one row and the flag False.
C16_LivePolicy ==
    handled.kind = "frame" =>
        \A k \in 1..Len(handled.detections) :
            LET d == handled.detections[k]
                rows == {i \in 1..Len(handled.rows) :
                            handled.rows[i].track_id = d.track_id}
                asked == {i \in 1..Len(handled.checks) :
                            handled.checks[i].track_id = d.track_id}
            IN  /\ \A i \in rows :
                      handled.rows[i] = Row("live", d.label, d.track_id)
                /\ IF d.label \in VIOLATION_LABELS
                   THEN /\ Cardinality(asked) = 1
                        /\ \A i \in asked : d.alert <=> handled.checks[i].ret
                        /\ Cardinality(rows) = (IF d.alert THEN 1 ELSE 0)
                   ELSE /\ Cardinality(rows) = 1
                        /\ ~d.alert

C16_Witness ==
    /\ handled.kind = "frame"
    /\ handled.detections = <<Detection(0, "NO_MASK", FALSE)>>
    /\ handled.rows = <<>>
    /\ handled.checks = <<Check("track_0", FALSE)>>
    /\ clock > StartTime

\* C19: a frame whose data does not decode, or whose detection,
\* classification or logging raises, is skipped and the session stays open.
C19_FrameErrorSkipsFrame ==
    handled.kind \in {"frame_skipped", "frame_error"} =>
        handled.client \in active_connections

----------------------------------------------------------------------------
(* The job engine, second part: claims *)

\* C21: a job whose worker has started (its status is processing) eventually
\* is completed or failed: with finitely many frames and every call
\* returning or raising, no job stays processing forever.
C21_StartedEventuallyTerminal ==
    \A j \in JobIds :
        (j \in DOMAIN jobs /\ jobs[j].status = PROCESSING)
            ~> (j \in DOMAIN jobs /\ jobs[j].status \in Terminal)

C21_Witness ==
    \E j \in DOMAIN jobs :
        /\ jobs[j].status = COMPLETED
        /\ run[j].pc = "returned"
        /\ jobs[j].summary # EmptyDict
        /\ jobs[j].summary.processed_frames >= 2

\* C22: create_job adds exactly one record, under an id no job had, with
\* status pending and progress 0, and leaves every other record as it was;
\* the new job stays pending, all fields as created, until process_video is
\* invoked for its id, and only that invocation moves it out of pending.
C22_CreateAddsOnlyPending ==
    /\ [][DOMAIN jobs' # DOMAIN jobs =>
             \E j \in DOMAIN jobs' \ DOMAIN jobs :
                 /\ DOMAIN jobs' = DOMAIN jobs \cup {j}
                 /\ jobs'[j].status = PENDING
                 /\ jobs'[j].progress = 0
                 /\ run'[j].pc = "scheduled"
                 /\ \A k \in DOMAIN jobs : jobs'[k] = jobs[k]]_vars
    /\ [](\A j \in DOMAIN jobs :
             run[j].pc = "scheduled" => jobs[j] = VideoJob(jobs[j].input_path))
    /\ [][\A j \in DOMAIN jobs :
             (jobs[j].status = PENDING /\ jobs'[j].status # PENDING) =>
                 (run[j].pc = "scheduled" /\ run'[j].pc = "open")]_vars

C22_Witness ==
    /\ DOMAIN jobs = JobIds \cup {SecondJob}
    /\ jobs[SecondJob] = VideoJob(SecondInput)
    /\ run[SecondJob].pc = "scheduled"
    /\ \E j \in JobIds :
           /\ jobs[j].status = PROCESSING
           /\ jobs[j].progress > 0

----------------------------------------------------------------------------
(* The tracker, second part: claims *)

\* C23: in an update with at least one track and at least one box, a track
\* whose nearest box was taken by an earlier track is matched to its nearest
\* box still unused, so a track is left unmatched only when no unused box
\* remains: no update both leaves a track unmatched and registers a box as a
\* new track.
C23_UnmatchedOnlyWhenNoBoxLeft ==
    [][(handled'.kind = "frame" /\ DOMAIN objects # {} /\ Len(last_result') >= 1) =>
          \/ DOMAIN objects \subseteq Ids(last_result')
          \/ Ids(last_result') \subseteq DOMAIN objects]_vars

\* round(a / b) for a >= 0 and b > 0, a half going to the even neighbour
RoundDiv(a, b) ==
    LET q == a \div b
        twice == 2 * (a % b)
    IN  IF twice > b \/ (twice = b /\ q % 2 = 1) THEN q + 1 ELSE q

\* C24: the stride the worker samples with is max(1, round(fps / target)),
\* for every positive frame rate, also when the fraction of the quotient is
\* one half or more.
C24_StrideIsRounded ==
    \A j \in DOMAIN jobs :
        run[j].pc = "loop" =>
            run[j].frame_skip = Max(1, RoundDiv(run[j].fps, VIDEO_PROCESS_FPS))

\* the indices below n that are multiples of skip, ascending
Multiples(n, skip) == Ascending({i \in 0..(n - 1) : i % skip = 0})

\* C25: the frames a worker samples are exactly those whose zero-based index
\* is a multiple of the stride; for the video of 100 frames at 30 frames per
\* second with target 5 the stride is 6 and floor(100 / 6) + 1 = 17 frames
\* are sampled; the progress never goes down and is 100 once the job has
\* completed.
C25_SampledAreMultiples ==
    /\ [](\A j \in DOMAIN jobs :
             /\ run[j].pc \in {"loop"} \cup CompletePcs =>
                    /\ run[j].written = Multiples(run[j].frame_idx, run[j].frame_skip)
                    /\ run[j].processed_frames = Len(run[j].written)
                    /\ jobs[j].input_path = ExampleInput => run[j].frame_skip = 6
             /\ (run[j].pc \in CompletePcs /\ jobs[j].input_path = ExampleInput) =>
                    /\ run[j].frame_idx = ExampleFrames
                    /\ run[j].processed_frames = (ExampleFrames \div 6) + 1
             /\ (run[j].pc = "returned" /\ jobs[j].status = COMPLETED) =>
                    /\ jobs[j].progress = 100
                    /\ jobs[j].input_path = ExampleInput =>
                           jobs[j].summary.processed_frames = (ExampleFrames \div 6) + 1)
    /\ [][\A j \in DOMAIN jobs : jobs'[j].progress >= jobs[j].progress]_vars

C25_Witness ==
    \E j \in DOMAIN jobs :
        /\ jobs[j].input_path = ExampleInput
        /\ run[j].pc = "returned"
        /\ jobs[j].status = COMPLETED
        /\ jobs[j].progress = 100
        /\ jobs[j].summary.processed_frames = 17
        /\ jobs[j].summary.total_frames = 100

----------------------------------------------------------------------------
(* The live session, second part: claims *)

\* C26: in the handling of one live frame every detection the policy
\* accepts (a compliant one, or a violation whose alert flag is True) has
\* exactly one row inserted and every suppressed one has none; should_alert
\* is called exactly once for a violation and not at all for a compliant
\* face; the last-alert time of the identity is set to the time of the
\* frame by an alert and is left as it was otherwise.
C26_OnePersistOneCheck ==
    [][(handled'.kind = "frame" /\ clock' = clock) =>
          LET h == handled'
              violating(k) == h.detections[k].label \in VIOLATION_LABELS
              accepted(k) == ~violating(k) \/ h.detections[k].alert
              before(id) == IF id \in DOMAIN last_alert_time
                            THEN last_alert_time[id] ELSE Never
              after(id) == IF id \in DOMAIN last_alert_time'
                           THEN last_alert_time'[id] ELSE Never
          IN  /\ Len(h.rows) = Cardinality({k \in 1..Len(h.detections) : accepted(k)})
              /\ Len(h.checks) = Cardinality({k \in 1..Len(h.detections) : violating(k)})
              /\ \A k \in 1..Len(h.detections) :
                     LET d == h.detections[k] IN
                     /\ Cardinality({i \in 1..Len(h.rows) :
                            h.rows[i] = Row("live", d.label, d.track_id)})
                            = (IF accepted(k) THEN 1 ELSE 0)
                     /\ Cardinality({i \in 1..Len(h.checks) :
                            h.checks[i].track_id = d.track_id})
                            = (IF violating(k) THEN 1 ELSE 0)
                     /\ after(d.track_id) = (IF d.alert THEN clock
                                             ELSE before(d.track_id))]_vars

C26_Witness ==
    /\ handled.kind = "frame"
    /\ handled.detections = <<Detection(1, "MASK_INCORRECT", TRUE)>>
    /\ handled.rows = <<Row("live", "MASK_INCORRECT", "track_1")>>
    /\ handled.checks = <<Check("track_1", TRUE)>>
    /\ "track_1" \in DOMAIN last_alert_time
    /\ last_alert_time["track_1"] = clock
    /\ clock > StartTime

----------------------------------------------------------------------------
(* The tracker, third part: claims *)

\* C27: an update with a non-empty list of boxes returns exactly one
\* (id, box) pair for each box it was given, no id twice, and every id it
\* returns is in the track set with a disappeared count of 0 when it returns.
C27_OnePairPerBox ==
    (handled.kind = "frame" /\ handled.faces # {}) =>
        LET n == Len(last_result) IN
        /\ n = Cardinality(handled.faces)
        /\ \A box \in handled.faces :
               Cardinality({k \in 1..n : last_result[k][2] = box}) = 1
        /\ \A a, b \in 1..n : a # b => last_result[a][1] # last_result[b][1]
        /\ \A k \in 1..n :
               /\ last_result[k][1] \in DOMAIN objects
               /\ last_result[k][1] \in DOMAIN disappeared
               /\ disappeared[last_result[k][1]] = 0
               /\ objects[last_result[k][1]] = Centroid(last_result[k][2])

C27_Witness ==
    /\ handled.kind = "frame"
    /\ Cardinality(handled.faces) = 2
    /\ Len(last_result) = 2
    /\ \E a, b \in 1..2 :
           /\ last_result[a][1] < last_result[b][1]
           /\ last_result[b][1] = next_object_id - 1
           /\ last_result[a][1] \in DOMAIN missed
    /\ \E id \in DOMAIN disappeared : disappeared[id] > 0
    /\ \A k \in 1..2 : disappeared[last_result[k][1]] = 0
    /\ Cardinality(DOMAIN objects) = 3

\* C28: every track in the track set has a disappeared count from 0 to
\* max_disappeared; none with a higher count is left by an update.
C28_CountWithinLimit ==
    \A id \in DOMAIN disappeared : disappeared[id] \in 0..max_disappeared

C28_Witness ==
    /\ \E id \in DOMAIN disappeared : disappeared[id] = max_disappeared
    /\ \E id \in DOMAIN disappeared : disappeared[id] = 0
    /\ \E id \in retired : id \notin DOMAIN disappeared
    /\ last_result # <<>>

----------------------------------------------------------------------------
(* The event logger, second part: claims *)

\* C29: a should_alert call that returns False changes nothing in the
\* logger, so the window runs from the last alert and not from the last
\* check: an identity checked again and again while the clock moves on gets
\* True from every check made cooldown_seconds or more after its last True,
\* however recently it was refused.
C29_DeniedCheckKeepsState ==
    /\ [][(call'.op = "should_alert" /\ clock' = clock /\ ~call'.ret) =>
             /\ last_alert_time' = last_alert_time
             /\ cooldown_seconds' = cooldown_seconds]_vars
    /\ []((/\ call.op = "should_alert"
            /\ call.since_true # Never
            /\ call.since_true >= call.window) => call.ret)

C29_Witness ==
    /\ call.op = "should_alert"
    /\ call.ret
    /\ call.window = 10
    /\ call.since_true = 10
    /\ call.since_denied = 5
    /\ call.track_id \in DOMAIN last_alert_time
    /\ last_alert_time[call.track_id] = clock

----------------------------------------------------------------------------
(* The job engine, third part: claims *)

\* the sum of counts over the labels in S
RECURSIVE SumCounts(_, _)
SumCounts(counts, S) ==
    IF S = {} THEN 0
    ELSE LET l == CHOOSE x \in S : TRUE
         IN  counts[l] + SumCounts(counts, S \ {l})

\* C30: for every completed job (complete_job has returned), the
\* total_detections of its summary is the sum of the summary's label_counts,
\* is the job's detections_count, and is the number of events its worker
\* persisted with source "video".
C30_CountsAgree ==
    \A j \in DOMAIN jobs :
        (jobs[j].status = COMPLETED /\ run[j].pc = "returned") =>
            /\ jobs[j].summary # EmptyDict
            /\ jobs[j].summary.total_detections
                   = SumCounts(jobs[j].summary.label_counts, LABELS)
            /\ jobs[j].summary.total_detections = jobs[j].detections_count
            /\ jobs[j].summary.total_detections = video_events[j]

C30_Witness ==
    \E j \in DOMAIN jobs :
        /\ jobs[j].status = COMPLETED
        /\ run[j].pc = "returned"
        /\ jobs[j].detections_count = 2
        /\ video_events[j] = 2
        /\ jobs[j].summary.label_counts["MASK_ON"] = 1
        /\ jobs[j].summary.label_counts["NO_MASK"] = 1

====
